---- MODULE Spec2Model ----
(***************************************************************************)
(* Model of sublime_jedi/daemon.py: the per-window Daemon / thread-pool    *)
(* tables, the three request shortcuts (ask_daemon_sync,                   *)
(* ask_daemon_with_timeout, ask_daemon), the delivery of asynchronous      *)
(* answers (run_in_active_view) and the backend selection of               *)
(* Daemon.request.                                                         *)
(*                                                                         *)
(* Four specifications:                                                    *)
(*   Spec     the threads of the plugin (UI thread, the host's async       *)
(*            thread, one worker per pool) interleaved statement by        *)
(*            statement, together with a user who closes windows and tabs  *)
(*            and changes the active view;                                 *)
(*   SpecLive Spec, with the host's async thread running its tasks;        *)
(*   SpecData the threads of the plugin together with a user who edits     *)
(*            the views and moves the cursor;                              *)
(*   SpecReq  one Daemon answering one request after the other, the inputs *)
(*            and the behaviour of the two backends drawn from bounded     *)
(*            sets.                                                        *)
(***************************************************************************)
EXTENDS Integers, Sequences, FiniteSets, TLC

\* ------------------------------------------------------------------------
\* Bounds of the model
\* ------------------------------------------------------------------------
\* largest 0-based cursor row / column of a request
MaxRow == 1
\* number of calls of the shortcuts the UI thread makes
MaxCalls == 2
\* number of edits and cursor moves the user makes
MaxEdits == 1

\* ------------------------------------------------------------------------
\* Values
\* ------------------------------------------------------------------------
\* Python's None, as an answer
None == [tag |-> "None"]

\* File names are sequences of path components; '' is the empty sequence
\* (view.file_name() or '').
FileNames == {<<>>, <<"pkg", "m.py">>, <<"lib", "n.py">>}

\* os.path.dirname
Dirname(filename) ==
    IF Len(filename) = 0 THEN <<>> ELSE SubSeq(filename, 1, Len(filename) - 1)

Rows == 0..MaxRow
Cols == 0..MaxRow

RequestTypes == {"goto", "pydef_goto", "autocomplete", "usages"}

\* settings.get('pydef'): a falsy value (None, {}) has enabled = FALSE;
\* otherwise a dict whose flags are read with .get()
PydefSettings ==
    {[enabled |-> FALSE, skip_jedi |-> FALSE, auto_path |-> FALSE]} \cup
    {[enabled |-> TRUE, skip_jedi |-> s, auto_path |-> a] : s \in BOOLEAN, a \in BOOLEAN}

\* the interpreter's search path (env.get_sys_path()) and settings' extra_packages
EnvSysPath == << <<"lib">> >>
ExtraPackages == {<<>>, << <<"extra">> >>}

Settings == [pydef : PydefSettings, extra_packages : ExtraPackages]

\* What pydef.goto_definition does: raises, finds nothing, or returns a
\* result with a file name and a 0-based row.
FinderOutcomes ==
    {[kind |-> "raise", filename |-> <<>>, row |-> 0],
     [kind |-> "none", filename |-> <<>>, row |-> 0]} \cup
    {[kind |-> "found", filename |-> <<"lib", "n.py">>, row |-> k] : k \in Rows}

\* What JediFacade(...).get(...) does: returns an answer (possibly None) or raises.
PrimaryAnswers == {None, [tag |-> "jedi", id |-> 1]}
PrimaryOutcomes ==
    {[kind |-> "value", val |-> a] : a \in PrimaryAnswers} \cup
    {[kind |-> "raise", val |-> None]}

\* ------------------------------------------------------------------------
\* Daemon
\* ------------------------------------------------------------------------
\* Daemon.__init__: sys_path and pydef as stored on the object
DaemonInit(settings) ==
    [sys_path |-> IF settings.extra_packages # <<>>
                  THEN settings.extra_packages \o EnvSysPath
                  ELSE EnvSysPath,
     pydef |-> settings.pydef]

InPath(dir, path) == \E i \in 1..Len(path) : path[i] = dir

\* the search path used by one request (auto_path)
RequestPath(self, filename, hasInit) ==
    IF self.pydef.enabled /\ self.pydef.auto_path
    THEN LET curdir == Dirname(filename)
         IN  IF ~hasInit /\ ~InPath(curdir, self.sys_path)
             THEN <<curdir>> \o self.sys_path
             ELSE self.sys_path
    ELSE self.sys_path

\* line 193: is the auxiliary finder consulted?
FinderConsulted(self, request_type) ==
    request_type \in {"goto", "pydef_goto"} /\ self.pydef.enabled

\* lines 194-216: the answer after the finder was called; an exception of
\* the finder is caught and leaves the answer None
FinderAnswer(finder) ==
    IF finder.kind = "found"
    THEN [tag |-> "loc", file |-> finder.filename, row |-> finder.row + 1, col |-> 0]
    ELSE None

\* (faulty variant: no except clause around the finder)
FinderExceptionEscapes(finder) == FALSE
\* lines 214-216: does the except clause catch what the finder raised?
FinderExceptionCaught(finder) == finder.kind = "raise"

\* line 217: return right after the finder, whatever it answered
ReturnsAfterFinder(self, request_type) ==
    self.pydef.skip_jedi \/ request_type = "pydef_goto"

\* (faulty variant: the primary engine is asked whatever the finder answered)
PrimaryAlways(answer) == TRUE
\* line 219: is the primary engine asked?
PrimaryNeeded(answer) == answer = None

\* (faulty variant: the directory is inserted into the stored list in place)
AfterRequestExtended(self, path) == [self EXCEPT !.sys_path = path]
\* lines 183-187: the Daemon object after a request that used `path`.
\* `path = [curdir] + path` builds a new list and rebinds the local name; no
\* attribute of self is assigned anywhere in the method.
AfterRequest(self, path) == self

\* (faulty variant: the finder is given a 1-based row)
FinderRowOneBased(line) == line + 1
\* line 206: row=line
FinderRow(line) == line

\* (faulty variant: the primary engine is given the 0-based row)
PrimaryLineZeroBased(line) == line
\* line 224: line=line + 1
PrimaryLine(line) == line + 1

\* Daemon.request: the calls it makes and what it returns.
\*   ret.kind = "value": returned ret.val;  "raise": an exception escaped.
request(self, request_type, filename, line, column, hasInit, finder, primary) ==
    LET path      == RequestPath(self, filename, hasInit)
        consulted == FinderConsulted(self, request_type)
        escaped   == consulted /\ finder.kind = "raise" /\ ~FinderExceptionCaught(finder)
        answer1   == IF consulted THEN FinderAnswer(finder) ELSE None
        early     == consulted /\ ~escaped /\ ReturnsAfterFinder(self, request_type)
        askJedi   == ~escaped /\ ~early /\ PrimaryNeeded(answer1)
    IN  [self          |-> AfterRequest(self, path),
         request_type  |-> request_type,
         filename      |-> filename,
         line          |-> line,
         column        |-> column,
         hasInit       |-> hasInit,
         finder        |-> finder,
         primary       |-> primary,
         path          |-> path,
         finderCalled  |-> consulted,
         finderRow     |-> IF consulted THEN FinderRow(line) ELSE -1,
         finderCol     |-> IF consulted THEN column ELSE -1,
         excCaught     |-> consulted /\ finder.kind = "raise" /\ ~escaped,
         primaryCalled |-> askJedi,
         primaryLine   |-> IF askJedi THEN PrimaryLine(line) ELSE -1,
         primaryCol    |-> IF askJedi THEN column ELSE -1,
         ret           |-> IF escaped THEN [kind |-> "raise", val |-> None]
                           ELSE IF askJedi THEN primary
                           ELSE [kind |-> "value", val |-> answer1]]

\* ------------------------------------------------------------------------
\* The Daemon of SpecReq
\* ------------------------------------------------------------------------
VARIABLES
    self,     \* the Daemon object (sys_path, pydef)
    self0,    \* the Daemon as constructed
    last      \* what the Daemon.request in hand did ("none": no request in hand)

reqVars == <<self, self0, last>>

NoRequest == [kind |-> "none"]

\* ------------------------------------------------------------------------
\* The host: windows, views, threads
\* ------------------------------------------------------------------------
\* window ids (window.id()); 0 stands for "no window"
Windows == {1, 2}
\* views; 0 stands for "no view" (active_view() of a window without views)
Views == {1, 2, 3}
\* the window each view is opened in: views 1 and 2 share window 1
HomeWindow(v) == IF v = 3 THEN 2 ELSE 1
\* the UI thread, and the thread that runs sublime.set_timeout_async tasks
Threads == {"ui", "async"}

\* what a finished Daemon.request hands back in Spec: the outcomes the
\* request operator produces for an 'autocomplete' request (answered by the
\* primary engine: an answer, None, or an exception)
RequestOutcomes ==
    {request(DaemonInit([pydef |-> [enabled |-> FALSE, skip_jedi |-> FALSE,
                                    auto_path |-> FALSE],
                         extra_packages |-> <<>>]),
             "autocomplete", <<>>, 0, 0, FALSE,
             [kind |-> "none", filename |-> <<>>, row |-> 0], po).ret :
        po \in PrimaryOutcomes}

\* the outcome of a call that has not ended, and of one ended by TimeoutError
Pending == [kind |-> "pending", val |-> None]
TimeoutError == [kind |-> "timeout", val |-> None]

VARIABLES
    winOpen,      \* winOpen[w]: window w is in sublime.windows()
    viewWin,      \* viewWin[v]: id of view.window(), 0 when it is None
    active,       \* active[w]: window.active_view(), 0 when there is none
    DAEMONS,      \* DAEMONS[w]: the Daemon object stored for w, 0 when absent
    REQUESTORS,   \* REQUESTORS[w]: the pool object stored for w, 0 when absent
    daemons,      \* daemons[d]: the window id Daemon object d was created for
    pools,        \* pools[p]: [win, queue, running] of ThreadPoolExecutor p
    futs,         \* futs[f]: the Future of the f-th ask_daemon_with_timeout;
                  \*   request_data: what _target holds;  used: the data its
                  \*   Daemon.request was given;  atStart: the data of the
                  \*   view when the worker started it;
                  \*   state, result: of the Future;  out: how the call ended;
                  \*   atExpiry, ahead: its state, and the request on the
                  \*   worker, when result(timeout) raised;  atCancel: its
                  \*   state when cancel() was called
    tasks,        \* tasks[k]: the closure _async_summon of the k-th ask_daemon
                  \*   call that got past line 104;  state "unscheduled": not
                  \*   given to set_timeout_async;  ncb: number of times the
                  \*   callback was invoked
    asyncQ,       \* the host's queue of async tasks not yet started
    pc,           \* pc[t]: where thread t stands
    fr,           \* fr[t]: the locals of the call thread t is in
    ncalls,       \* number of calls the UI thread has made
    buf,          \* buf[v]: the buffer of view v: text (a version of file name
                  \*   and content) and cursor (view.sel()[0].begin())
    nedits        \* number of edits and cursor moves made

mainVars == <<winOpen, viewWin, active, DAEMONS, REQUESTORS, daemons, pools,
              futs, tasks, asyncQ, pc, fr, ncalls, buf, nedits>>

\* location=None
NoLocation == -1
\* no request data read (yet)
NoData == [text |-> -1, pos |-> -1]

\* _prepare_request_data(view, location): file name and source as they are
\* now, and the position: the given location, or the cursor when it is None
\* (line and column are view.rowcol of that position in the text as it is now)
PrepareRequestData(view, location) ==
    [text |-> buf[view].text,
     pos  |-> IF location = NoLocation THEN buf[view].cursor ELSE location]

\* the locations a caller passes: None, or the cursor position it was told
Locations(v) == {NoLocation, buf[v].cursor}

Frame0 == [api |-> "none", view |-> 0, wid |-> 0, daemon |-> 0, pool |-> 0,
           fut |-> 0, task |-> 0, answer |-> None,
           location |-> NoLocation, data |-> NoData]

ViewsIn(w) == {v \in Views : viewWin[v] = w}

Init ==
    /\ winOpen = [w \in Windows |-> TRUE]
    /\ viewWin = [v \in Views |-> HomeWindow(v)]
    /\ active = [w \in Windows |-> IF w = 1 THEN 1 ELSE 3]
    /\ DAEMONS = [w \in Windows |-> 0]
    /\ REQUESTORS = [w \in Windows |-> 0]
    /\ daemons = <<>>
    /\ pools = <<>>
    /\ futs = <<>>
    /\ tasks = <<>>
    /\ asyncQ = <<>>
    /\ pc = [t \in Threads |-> "idle"]
    /\ fr = [t \in Threads |-> Frame0]
    /\ ncalls = 0
    /\ buf = [v \in Views |-> [text |-> 0, cursor |-> 0]]
    /\ nedits = 0
    /\ self = DaemonInit([pydef |-> [enabled |-> FALSE, skip_jedi |-> FALSE,
                                      auto_path |-> FALSE],
                          extra_packages |-> <<>>])
    /\ self0 = self
    /\ last = NoRequest

\* ------------------------------------------------------------------------
\* Helpers of the actions
\* ------------------------------------------------------------------------
\* every action of Spec leaves the Daemon of SpecReq alone
ReqIdle == UNCHANGED reqVars

\* the plugin never changes a buffer
Unedited == UNCHANGED <<buf, nedits>>

\* the call thread t is in ends (it returned, or an exception left it)
Leave(t) ==
    /\ pc' = [pc EXCEPT ![t] = "idle"]
    /\ fr' = [fr EXCEPT ![t] = Frame0]

\* an exception leaves the call thread t is in.  On the async thread it
\* escapes _async_summon: the task ends without reaching run_in_active_view.
Raise(t) ==
    /\ Leave(t)
    /\ tasks' = IF fr[t].api = "async"
                THEN [tasks EXCEPT ![fr[t].task].state = "failed"]
                ELSE tasks

\* ------------------------------------------------------------------------
\* The three shortcuts, as called by the UI thread
\* ------------------------------------------------------------------------
\* ask_daemon_sync(view, ...) is called
CallSync(v, location) ==
    /\ pc["ui"] = "idle"
    /\ ncalls < MaxCalls
    /\ ncalls' = ncalls + 1
    /\ pc' = [pc EXCEPT !["ui"] = "gd_check"]
    /\ fr' = [fr EXCEPT !["ui"] = [Frame0 EXCEPT !.api = "sync", !.view = v,
                                                !.location = location]]
    /\ UNCHANGED <<winOpen, viewWin, active, DAEMONS, REQUESTORS, daemons,
                   pools, futs, tasks, asyncQ>>
    /\ Unedited
    /\ ReqIdle

\* ask_daemon_with_timeout(view, ...) is called
CallTimeout(v, location) ==
    /\ pc["ui"] = "idle"
    /\ ncalls < MaxCalls
    /\ ncalls' = ncalls + 1
    /\ pc' = [pc EXCEPT !["ui"] = "gd_check"]
    /\ fr' = [fr EXCEPT !["ui"] = [Frame0 EXCEPT !.api = "timeout", !.view = v,
                                                !.location = location]]
    /\ UNCHANGED <<winOpen, viewWin, active, DAEMONS, REQUESTORS, daemons,
                   pools, futs, tasks, asyncQ>>
    /\ Unedited
    /\ ReqIdle

\* (faulty variant: no test of the callback before scheduling)
ScheduledAlways(callback) == TRUE
\* line 110: if callback:
Scheduled(callback) == callback

\* ask_daemon(view, callback, ...): view.window().id() is read (an exception
\* when the view has no window), the closure _async_summon is made, and it is
\* given to sublime.set_timeout_async when the callback is truthy
AskDaemon(v, callback, location) ==
    /\ pc["ui"] = "idle"
    /\ ncalls < MaxCalls
    /\ ncalls' = ncalls + 1
    /\ IF viewWin[v] # 0
       THEN /\ tasks' = Append(tasks,
                   [view |-> v, window_id |-> viewWin[v], callback |-> callback,
                    location |-> location,
                    state |-> IF Scheduled(callback) THEN "queued"
                              ELSE "unscheduled",
                    atCall |-> PrepareRequestData(v, location), used |-> NoData,
                    ncb |-> 0, cbView |-> 0, cbAnswer |-> None])
            /\ asyncQ' = IF Scheduled(callback)
                         THEN Append(asyncQ, Len(tasks) + 1)
                         ELSE asyncQ
       ELSE UNCHANGED <<tasks, asyncQ>>
    /\ UNCHANGED <<winOpen, viewWin, active, DAEMONS, REQUESTORS, daemons,
                   pools, futs, pc, fr>>
    /\ Unedited
    /\ ReqIdle

\* the host's async thread starts the next queued task: _async_summon
AsyncTake ==
    /\ pc["async"] = "idle"
    /\ asyncQ # <<>>
    /\ LET k == Head(asyncQ)
       IN  /\ tasks' = [tasks EXCEPT ![k].state = "running"]
           /\ fr' = [fr EXCEPT !["async"] =
                        [Frame0 EXCEPT !.api = "async", !.view = tasks[k].view,
                                       !.location = tasks[k].location,
                                       !.task = k]]
    /\ asyncQ' = Tail(asyncQ)
    /\ pc' = [pc EXCEPT !["async"] = "gd_check"]
    /\ UNCHANGED <<winOpen, viewWin, active, DAEMONS, REQUESTORS, daemons,
                   pools, futs, ncalls>>
    /\ Unedited
    /\ ReqIdle

\* ------------------------------------------------------------------------
\* _get_daemon and _get_requestor, statement by statement
\* ------------------------------------------------------------------------
\* _get_daemon: window_id = view.window().id(); window_id not in DAEMONS ?
GetDaemonCheck(t) ==
    /\ pc[t] = "gd_check"
    /\ IF viewWin[fr[t].view] = 0
       THEN Raise(t)
       ELSE /\ fr' = [fr EXCEPT ![t].wid = viewWin[fr[t].view]]
            /\ pc' = [pc EXCEPT ![t] =
                         IF DAEMONS[viewWin[fr[t].view]] = 0
                         THEN "gd_create" ELSE "gd_return"]
            /\ UNCHANGED tasks
    /\ UNCHANGED <<winOpen, viewWin, active, DAEMONS, REQUESTORS, daemons,
                   pools, futs, asyncQ, ncalls>>
    /\ Unedited
    /\ ReqIdle

\* _get_daemon: DAEMONS[window_id] = Daemon(settings=get_settings(view))
GetDaemonCreate(t) ==
    /\ pc[t] = "gd_create"
    /\ daemons' = Append(daemons, fr[t].wid)
    /\ DAEMONS' = [DAEMONS EXCEPT ![fr[t].wid] = Len(daemons) + 1]
    /\ pc' = [pc EXCEPT ![t] = "gd_return"]
    /\ UNCHANGED <<winOpen, viewWin, active, REQUESTORS, pools, futs, tasks,
                   asyncQ, fr, ncalls>>
    /\ Unedited
    /\ ReqIdle

\* (faulty variant: ask_daemon reads the request data when it is called)
SummonDataCaptured(captured, current) == captured
\* lines 106-107: the closure holds view and location, not the request data;
\* the data of its request are the ones ask_daemon_sync reads when it runs
SummonData(captured, current) == current

\* _get_daemon: return DAEMONS[window_id].  ask_daemon_sync goes on to read
\* the request data (line 62) and to enter daemon.request(...) on this thread.
GetDaemonReturn(t) ==
    /\ pc[t] = "gd_return"
    /\ LET current == PrepareRequestData(fr[t].view, fr[t].location)
           data == IF fr[t].api = "async"
                   THEN SummonData(tasks[fr[t].task].atCall, current)
                   ELSE current
       IN  /\ fr' = [fr EXCEPT ![t].daemon = DAEMONS[fr[t].wid],
                               ![t].data = IF fr[t].api = "timeout" THEN NoData
                                           ELSE data]
           /\ tasks' = IF fr[t].api = "async"
                       THEN [tasks EXCEPT ![fr[t].task].used = data]
                       ELSE tasks
    /\ pc' = [pc EXCEPT ![t] =
                 IF fr[t].api = "timeout" THEN "gr_check" ELSE "in_request"]
    /\ UNCHANGED <<winOpen, viewWin, active, DAEMONS, REQUESTORS, daemons,
                   pools, futs, asyncQ, ncalls>>
    /\ Unedited
    /\ ReqIdle

\* _get_requestor, whole: only the UI thread reads or writes REQUESTORS, so
\* no step of another thread can fall between its statements.
\*   window_id = view.window().id()
\*   if window_id not in REQUESTORS:
\*       REQUESTORS[window_id] = ThreadPoolExecutor(max_workers=1)
\*   return REQUESTORS[window_id]
GetRequestor(t) ==
    /\ pc[t] = "gr_check"
    /\ IF viewWin[fr[t].view] = 0
       THEN /\ Raise(t)
            /\ UNCHANGED <<pools, REQUESTORS>>
       ELSE LET w == viewWin[fr[t].view]
                p == IF REQUESTORS[w] = 0 THEN Len(pools) + 1 ELSE REQUESTORS[w]
            IN  /\ pools' = IF REQUESTORS[w] = 0
                            THEN Append(pools, [win |-> w, queue |-> <<>>,
                                                running |-> {}])
                            ELSE pools
                /\ REQUESTORS' = [REQUESTORS EXCEPT ![w] = p]
                /\ fr' = [fr EXCEPT ![t].wid = w, ![t].pool = p]
                /\ pc' = [pc EXCEPT ![t] = "submit"]
                /\ UNCHANGED tasks
    /\ UNCHANGED <<winOpen, viewWin, active, DAEMONS, daemons, futs, asyncQ,
                   ncalls>>
    /\ Unedited
    /\ ReqIdle

\* ------------------------------------------------------------------------
\* ask_daemon_sync: Daemon.request on the calling thread
\* ------------------------------------------------------------------------
\* daemon.request(...) ends on the calling thread.  The UI thread's call
\* ends with it; _async_summon goes on to run_in_active_view with the answer.
RequestEnd(t) ==
    /\ pc[t] = "in_request"
    /\ \E o \in RequestOutcomes :
          IF o.kind = "raise" THEN Raise(t)
          ELSE IF fr[t].api = "async"
          THEN /\ fr' = [fr EXCEPT ![t].answer = o.val]
               /\ pc' = [pc EXCEPT ![t] = "deliver"]
               /\ UNCHANGED tasks
          ELSE Leave(t) /\ UNCHANGED tasks
    /\ UNCHANGED <<winOpen, viewWin, active, DAEMONS, REQUESTORS, daemons,
                   pools, futs, asyncQ, ncalls>>
    /\ Unedited
    /\ ReqIdle

\* ------------------------------------------------------------------------
\* run_in_active_view
\* ------------------------------------------------------------------------
\* (faulty variants: the callback gets the view that issued the request;
\* the wrapper looks for the window the issuing view is in by then)
DeliveryViewOfRequest(window_id, view) == view
DeliveryWindowOfView(window_id, view) == viewWin[view]
\* the first argument the wrapped function is called with
DeliveryView(window_id, view) == active[window_id]

\* the window the wrapper looks for among sublime.windows()
DeliveryWindow(window_id, view) == window_id

\* run_in_active_view(window_id)(callback)(answer)
Deliver ==
    /\ pc["async"] = "deliver"
    /\ LET k == fr["async"].task
           w == DeliveryWindow(tasks[k].window_id, tasks[k].view)
       IN  IF w \in Windows /\ winOpen[w]
           THEN tasks' = [tasks EXCEPT
                    ![k].state = "delivered",
                    ![k].ncb = @ + 1,
                    ![k].cbView = DeliveryView(w, tasks[k].view),
                    ![k].cbAnswer = fr["async"].answer]
           ELSE tasks' = [tasks EXCEPT ![k].state = "dropped"]
    /\ Leave("async")
    /\ UNCHANGED <<winOpen, viewWin, active, DAEMONS, REQUESTORS, daemons,
                   pools, futs, asyncQ, ncalls>>
    /\ Unedited
    /\ ReqIdle

\* ------------------------------------------------------------------------
\* ask_daemon_with_timeout and the window's ThreadPoolExecutor
\* ------------------------------------------------------------------------
\* ThreadPoolExecutor(max_workers=1)
max_workers == 1

\* (faulty variants: a pool of two workers; a pool without a limit; one
\* worker shared by the pools of all windows)
WorkerFreeOfTwo(p) == Cardinality(pools[p].running) < max_workers + 1
WorkerFreeAlways(p) == TRUE
WorkerFreeShared(p) ==
    Cardinality(UNION {pools[q].running : q \in 1..Len(pools)}) < max_workers
\* a worker thread of pool p is free to take the next work item
WorkerFree(p) == Cardinality(pools[p].running) < max_workers

\* the work item a free worker takes from the pool's queue
NextWorkItem(queue) == Head(queue)

\* (faulty variant: the worker runs a cancelled work item too)
WorkerRunsCancelled(state) == TRUE
\* Future.set_running_or_notify_cancel: a cancelled work item is not run
WorkerRuns(state) == state # "CANCELLED"

\* (faulty variant: cancel() also ends a future that is running)
CancelInterrupts(state) ==
    IF state \in {"PENDING", "RUNNING"} THEN "CANCELLED" ELSE state
\* Future.cancel(): only a future that has not started is cancelled
CancelFuture(state) ==
    IF state = "PENDING" THEN "CANCELLED" ELSE state

\* (faulty variant: the except clause returns None instead of re-raising)
TimeoutSwallowed == [kind |-> "value", val |-> None]
\* how a call whose wait timed out ends: the TimeoutError is re-raised
TimeoutOutcome == TimeoutError

\* (faulty variant: _target reads the request data when the worker runs it)
TargetDataCurrent(request_data, current) == current
\* line 84: _target passes the request_data read at line 81
TargetData(request_data, current) == request_data

\* request_data = _prepare_request_data(view, location)
\* request = requestor.submit(_target)
Submit(t) ==
    /\ pc[t] = "submit"
    /\ futs' = Append(futs,
           [pool |-> fr[t].pool, win |-> fr[t].wid, daemon |-> fr[t].daemon,
            state |-> "PENDING", result |-> Pending, out |-> Pending,
            atExpiry |-> "", ahead |-> 0, atCancel |-> "",
            request_data |-> PrepareRequestData(fr[t].view, fr[t].location),
            used |-> NoData, atStart |-> NoData])
    /\ pools' = [pools EXCEPT ![fr[t].pool].queue = Append(@, Len(futs) + 1)]
    /\ fr' = [fr EXCEPT ![t].fut = Len(futs) + 1]
    /\ pc' = [pc EXCEPT ![t] = "wait"]
    /\ UNCHANGED <<winOpen, viewWin, active, DAEMONS, REQUESTORS, daemons,
                   tasks, asyncQ, ncalls>>
    /\ Unedited
    /\ ReqIdle

\* the pool's worker takes the next work item and, unless it was
\* cancelled, starts _target: daemon.request(...)
WorkerTake(p) ==
    /\ WorkerFree(p)
    /\ pools[p].queue # <<>>
    /\ LET f == NextWorkItem(pools[p].queue)
           q == SelectSeq(pools[p].queue, LAMBDA x : x # f)
           \* the caller of a future that starts is still waiting for it
           callers == {u \in Threads : fr[u].fut = f}
           current == IF callers = {} THEN NoData
                      ELSE LET t == CHOOSE u \in callers : TRUE
                           IN  PrepareRequestData(fr[t].view, fr[t].location)
       IN  IF WorkerRuns(futs[f].state)
           THEN /\ futs' = [futs EXCEPT
                          ![f].state = "RUNNING",
                          ![f].used = TargetData(futs[f].request_data, current),
                          ![f].atStart = current]
                /\ pools' = [pools EXCEPT ![p].queue = q,
                                          ![p].running = @ \cup {f}]
           ELSE /\ pools' = [pools EXCEPT ![p].queue = q]
                /\ UNCHANGED futs
    /\ UNCHANGED <<winOpen, viewWin, active, DAEMONS, REQUESTORS, daemons,
                   tasks, asyncQ, pc, fr, ncalls>>
    /\ Unedited
    /\ ReqIdle

\* daemon.request(...) ends on the worker: the future gets its result
WorkerFinish(p) ==
    /\ \E f \in pools[p].running, o \in RequestOutcomes :
          /\ futs' = [futs EXCEPT ![f].state = "FINISHED", ![f].result = o]
          /\ pools' = [pools EXCEPT ![p].running = @ \ {f}]
    /\ UNCHANGED <<winOpen, viewWin, active, DAEMONS, REQUESTORS, daemons,
                   tasks, asyncQ, pc, fr, ncalls>>
    /\ Unedited
    /\ ReqIdle

\* request.result(timeout=timeout) returns (or re-raises) what _target did
ResultReturns(t) ==
    /\ pc[t] = "wait"
    /\ futs[fr[t].fut].state = "FINISHED"
    /\ futs' = [futs EXCEPT ![fr[t].fut].out = futs[fr[t].fut].result]
    /\ Leave(t)
    /\ UNCHANGED <<winOpen, viewWin, active, DAEMONS, REQUESTORS, daemons,
                   pools, tasks, asyncQ, ncalls>>
    /\ Unedited
    /\ ReqIdle

\* the request that occupies a worker of pool p (0: none)
OccupiedBy(p) ==
    IF pools[p].running = {} THEN 0 ELSE CHOOSE f \in pools[p].running : TRUE

\* request.result(timeout=timeout) raises TimeoutError: no result in time
TimeoutExpires(t) ==
    /\ pc[t] = "wait"
    /\ futs[fr[t].fut].state # "FINISHED"
    /\ futs' = [futs EXCEPT
           ![fr[t].fut].atExpiry = futs[fr[t].fut].state,
           ![fr[t].fut].ahead = OccupiedBy(fr[t].pool)]
    /\ pc' = [pc EXCEPT ![t] = "expired"]
    /\ UNCHANGED <<winOpen, viewWin, active, DAEMONS, REQUESTORS, daemons,
                   pools, tasks, asyncQ, fr, ncalls>>
    /\ Unedited
    /\ ReqIdle

\* except TimeoutError: request.cancel(); raise
Cancel(t) ==
    /\ pc[t] = "expired"
    /\ futs' = [futs EXCEPT
           ![fr[t].fut].state = CancelFuture(futs[fr[t].fut].state),
           ![fr[t].fut].atCancel = futs[fr[t].fut].state,
           ![fr[t].fut].out = TimeoutOutcome]
    /\ Leave(t)
    /\ UNCHANGED <<winOpen, viewWin, active, DAEMONS, REQUESTORS, daemons,
                   pools, tasks, asyncQ, ncalls>>
    /\ Unedited
    /\ ReqIdle

\* ------------------------------------------------------------------------
\* The host: what the user does with windows and views
\* ------------------------------------------------------------------------
\* window w is closed, and its views with it
CloseWindow(w) ==
    /\ winOpen[w]
    /\ winOpen' = [winOpen EXCEPT ![w] = FALSE]
    /\ viewWin' = [v \in Views |-> IF viewWin[v] = w THEN 0 ELSE viewWin[v]]
    /\ active' = [active EXCEPT ![w] = 0]
    /\ UNCHANGED <<DAEMONS, REQUESTORS, daemons, pools, futs, tasks, asyncQ,
                   pc, fr, ncalls>>
    /\ Unedited
    /\ ReqIdle

\* view v (a tab) is closed: view.window() is None from then on; when it was
\* the active view of its window, the host makes another view of the window
\* the active one (none when the window has no view left)
CloseView(v) ==
    /\ viewWin[v] # 0
    /\ viewWin' = [viewWin EXCEPT ![v] = 0]
    /\ LET w == viewWin[v]
           rest == ViewsIn(w) \ {v}
       IN  active' = IF active[w] # v THEN active
                     ELSE IF rest = {} THEN [active EXCEPT ![w] = 0]
                     ELSE [active EXCEPT ![w] = CHOOSE u \in rest : TRUE]
    /\ UNCHANGED <<winOpen, DAEMONS, REQUESTORS, daemons, pools, futs, tasks,
                   asyncQ, pc, fr, ncalls>>
    /\ Unedited
    /\ ReqIdle

\* the user edits view v: its text (or its file name) changes
Edit(v) ==
    /\ viewWin[v] # 0
    /\ nedits < MaxEdits
    /\ nedits' = nedits + 1
    /\ buf' = [buf EXCEPT ![v].text = @ + 1]
    /\ UNCHANGED <<winOpen, viewWin, active, DAEMONS, REQUESTORS, daemons,
                   pools, futs, tasks, asyncQ, pc, fr, ncalls>>
    /\ ReqIdle

\* the user moves the cursor of view v
MoveCursor(v) ==
    /\ viewWin[v] # 0
    /\ nedits < MaxEdits
    /\ nedits' = nedits + 1
    /\ buf' = [buf EXCEPT ![v].cursor = @ + 1]
    /\ UNCHANGED <<winOpen, viewWin, active, DAEMONS, REQUESTORS, daemons,
                   pools, futs, tasks, asyncQ, pc, fr, ncalls>>
    /\ ReqIdle

\* another view of window w becomes its active view
ActivateView(w, v) ==
    /\ viewWin[v] = w
    /\ active[w] # v
    /\ active' = [active EXCEPT ![w] = v]
    /\ UNCHANGED <<winOpen, viewWin, DAEMONS, REQUESTORS, daemons, pools, futs,
                   tasks, asyncQ, pc, fr, ncalls>>
    /\ Unedited
    /\ ReqIdle

\* ------------------------------------------------------------------------
\* Spec: the plugin's threads and the host
\* ------------------------------------------------------------------------
\* the steps of the plugin's threads
PluginNext ==
    \/ \E v \in Views : \E location \in Locations(v) : CallSync(v, location)
    \/ \E v \in Views : \E location \in Locations(v) : CallTimeout(v, location)
    \/ \E v \in Views, callback \in BOOLEAN :
          \E location \in Locations(v) : AskDaemon(v, callback, location)
    \/ AsyncTake
    \/ \E t \in Threads : GetDaemonCheck(t)
    \/ \E t \in Threads : GetDaemonCreate(t)
    \/ \E t \in Threads : GetDaemonReturn(t)
    \/ \E t \in Threads : GetRequestor(t)
    \/ \E t \in Threads : RequestEnd(t)
    \/ Deliver
    \/ \E t \in Threads : Submit(t)
    \/ \E p \in 1..Len(pools) : WorkerTake(p)
    \/ \E p \in 1..Len(pools) : WorkerFinish(p)
    \/ \E t \in Threads : ResultReturns(t)
    \/ \E t \in Threads : TimeoutExpires(t)
    \/ \E t \in Threads : Cancel(t)

\* Spec: the plugin and a user who closes windows and tabs and changes the
\* active view
Next ==
    \/ PluginNext
    \/ \E w \in Windows : CloseWindow(w)
    \/ \E v \in Views : CloseView(v)
    \/ \E w \in Windows, v \in Views : ActivateView(w, v)

\* SpecData: the plugin and a user who edits the views and moves the cursor
NextData ==
    \/ PluginNext
    \/ \E v \in Views : Edit(v)
    \/ \E v \in Views : MoveCursor(v)

\* ------------------------------------------------------------------------
\* SpecReq: one Daemon and the requests made of it
\* ------------------------------------------------------------------------
InitReq ==
    /\ \E settings \in Settings : self = DaemonInit(settings)
    /\ self0 = self
    /\ last = NoRequest
    /\ winOpen = [w \in Windows |-> TRUE]
    /\ viewWin = [v \in Views |-> HomeWindow(v)]
    /\ active = [w \in Windows |-> IF w = 1 THEN 1 ELSE 3]
    /\ DAEMONS = [w \in Windows |-> 0]
    /\ REQUESTORS = [w \in Windows |-> 0]
    /\ daemons = <<>>
    /\ pools = <<>>
    /\ futs = <<>>
    /\ tasks = <<>>
    /\ asyncQ = <<>>
    /\ pc = [t \in Threads |-> "idle"]
    /\ fr = [t \in Threads |-> Frame0]
    /\ ncalls = 0
    /\ buf = [v \in Views |-> [text |-> 0, cursor |-> 0]]
    /\ nedits = 0

\* a caller runs Daemon.request to its end
DoRequest ==
    /\ last = NoRequest
    /\ \E request_type \in RequestTypes, filename \in FileNames,
          line \in Rows, column \in Cols, hasInit \in BOOLEAN,
          finder \in FinderOutcomes, primary \in PrimaryOutcomes :
          LET r == request(self, request_type, filename, line, column,
                           hasInit, finder, primary)
          IN  /\ last' = [kind |-> "request", r |-> r]
              /\ self' = r.self
    /\ UNCHANGED self0
    /\ UNCHANGED mainVars

\* the caller has taken the answer; the Daemon is ready for the next request
TakeAnswer ==
    /\ last # NoRequest
    /\ last' = NoRequest
    /\ UNCHANGED <<self, self0>>
    /\ UNCHANGED mainVars

NextReq == DoRequest \/ TakeAnswer

vars == <<mainVars, reqVars>>

Spec == Init /\ [][Next]_vars

SpecReq == InitReq /\ [][NextReq]_vars

SpecData == Init /\ [][NextData]_vars

\* The host runs the tasks given to set_timeout_async one after the other on
\* its async thread, and that thread keeps running the statements of the task
\* it is in.  No fairness for RequestEnd: a backend call need not return.
AsyncFairness ==
    /\ WF_vars(AsyncTake)
    /\ WF_vars(GetDaemonCheck("async"))
    /\ WF_vars(GetDaemonCreate("async"))
    /\ WF_vars(GetDaemonReturn("async"))
    /\ WF_vars(Deliver)

SpecLive == Init /\ [][Next]_vars /\ AsyncFairness

\* ------------------------------------------------------------------------
\* Properties
\* ------------------------------------------------------------------------
FutIds == 1..Len(futs)
TaskIds == 1..Len(tasks)

\* the executions of Daemon.request in progress for window w: on the pool's
\* worker (futures) and on the calling threads (ask_daemon_sync)
RunningFutures(w) == {f \in FutIds : futs[f].win = w /\ futs[f].state = "RUNNING"}
RunningThreads(w) == {t \in Threads : pc[t] = "in_request" /\ fr[t].wid = w}
InProgress(w) == Cardinality(RunningFutures(w)) + Cardinality(RunningThreads(w))

\* C1, as claimed: at most one execution of Daemon.request is in progress for
\* a window at any time, whichever of ask_daemon_sync, ask_daemon_with_timeout
\* and ask_daemon the requests come from.
C1_AllRequestsSerialized == \A w \in Windows : InProgress(w) <= 1

\* C1, amended: at most one execution of Daemon.request submitted by
\* ask_daemon_with_timeout (run on the window's pool) is in progress for a
\* window at any time.
C1_PoolRequestsSerialized ==
    \A w \in Windows : Cardinality(RunningFutures(w)) <= 1

\* C1 witness: a timeout-bound request of a window waits in the queue while
\* another one of the same window is running.
C1_Witness ==
    \E f \in FutIds, g \in FutIds :
        /\ futs[f].win = futs[g].win
        /\ futs[f].state = "RUNNING"
        /\ futs[g].state = "PENDING"

\* C2: an ask_daemon_with_timeout call that ended with the timeout failure had
\* no result when its wait expired and has called cancel(); a call whose wait
\* did not expire ends with exactly what Daemon.request did (its value, None
\* included, or its exception); a call whose wait expired never ends with an
\* answer; and the timeout failure is none of the outcomes of Daemon.request.
C2_TimeoutOrExactResult ==
    /\ TimeoutError \notin RequestOutcomes
    /\ \A f \in FutIds :
          /\ futs[f].out = TimeoutError =>
                /\ futs[f].atExpiry \in {"PENDING", "RUNNING"}
                /\ futs[f].atCancel # ""
          /\ futs[f].out.kind \in {"value", "raise"} =>
                /\ futs[f].atExpiry = ""
                /\ futs[f].state = "FINISHED"
                /\ futs[f].out = futs[f].result
          /\ (futs[f].atExpiry # "" /\ futs[f].out # Pending) =>
                futs[f].out = TimeoutError

\* C2 witness: one call has ended with the timeout failure and another one
\* has returned the answer None of its request.
C2_Witness ==
    \E f \in FutIds, g \in FutIds :
        /\ futs[f].out = TimeoutError
        /\ futs[g].out = [kind |-> "value", val |-> None]
        /\ futs[g].result = futs[g].out

\* the caller of future f has timed out while f runs on the worker
TimedOutRunning(f) == futs[f].state = "RUNNING" /\ futs[f].atExpiry # ""

\* some request of window w starts in this step on a calling thread
SyncStarts(w) ==
    \E t \in Threads :
        pc[t] # "in_request" /\ pc'[t] = "in_request" /\ fr'[t].wid = w

\* some timeout-bound request of window w other than f starts in this step
PoolStarts(w, f) ==
    \E g \in FutIds \ {f} :
        futs[g].win = w /\ futs[g].state # "RUNNING" /\ futs'[g].state = "RUNNING"

\* C3, as claimed: a request running on the worker when its caller timed out
\* is not interrupted (it leaves the running state only by finishing), no
\* request of its window starts before it ends, and its caller's outcome stays
\* the timeout failure (the late result is delivered to nobody).
C3_NoRequestStartsBehindTimedOut ==
    [][\A f \in FutIds :
          TimedOutRunning(f) =>
              /\ futs'[f].state \in {"RUNNING", "FINISHED"}
              /\ ~PoolStarts(futs[f].win, f)
              /\ ~SyncStarts(futs[f].win)
              /\ futs[f].out = TimeoutError => futs'[f].out = TimeoutError]_vars

\* C3, amended: ... no timeout-bound request of its window starts before it
\* ends (requests of ask_daemon_sync and ask_daemon are not held back) ...
C3_NoPoolRequestStartsBehindTimedOut ==
    [][/\ \A f \in FutIds :
             TimedOutRunning(f) =>
                 /\ futs'[f].state \in {"RUNNING", "FINISHED"}
                 /\ ~PoolStarts(futs[f].win, f)
       /\ \A f \in FutIds :
             futs[f].out = TimeoutError => futs'[f].out = TimeoutError]_vars

\* C3 witness: a request was running when its caller cancelled it, has run to
\* its end since, its caller's outcome is still the timeout failure, and a
\* later request of the same window was submitted meanwhile.
C3_Witness ==
    \E f \in FutIds, g \in FutIds :
        /\ f < g
        /\ futs[f].win = futs[g].win
        /\ futs[f].atCancel = "RUNNING"
        /\ futs[f].state = "FINISHED"
        /\ futs[f].result.kind = "value"
        /\ futs[f].out = TimeoutError

\* task k of the async queue ends in this step
TaskEnds(k) ==
    /\ tasks[k].state \in {"queued", "running"}
    /\ tasks'[k].state \in {"delivered", "dropped", "failed"}

\* C4, as claimed: when the originating window has been closed before the
\* async task of ask_daemon ends, the task ends by dropping the result with a
\* log entry: the callback is not invoked and no exception escapes the task.
C4_ClosedWindowDropsAndLogs ==
    [][\A k \in TaskIds :
          (TaskEnds(k) /\ ~winOpen[tasks[k].window_id]) =>
              tasks'[k].state = "dropped"]_vars

\* C5: when run_in_active_view finds the originating window open, the callback
\* is invoked with the view that is then the active view of the window whose
\* id ask_daemon captured, followed by the answer of the request.
C5_CallbackGetsActiveView ==
    [][\A k \in TaskIds :
          (pc["async"] = "deliver" /\ fr["async"].task = k /\ TaskEnds(k)
           /\ winOpen[tasks[k].window_id]) =>
              /\ tasks'[k].state = "delivered"
              /\ tasks'[k].cbView = active[tasks[k].window_id]
              /\ tasks'[k].cbAnswer = fr["async"].answer]_vars

\* C5 witness: a callback was invoked with a view other than the one that
\* issued the request, and with an answer that is not None.
C5_Witness ==
    \E k \in TaskIds :
        /\ tasks[k].state = "delivered"
        /\ tasks[k].cbView # tasks[k].view
        /\ tasks[k].cbView # 0
        /\ tasks[k].cbAnswer # None

\* the request in hand, and whether the finder was called and raised
Req == last.r
FinderRaised == last.kind = "request" /\ Req.finderCalled /\ Req.finder.kind = "raise"
SkipsPrimary == Req.self.pydef.skip_jedi \/ Req.request_type = "pydef_goto"

\* C6, as claimed: whenever the finder raises, the exception is caught and the
\* request falls through to the primary engine, for every request type that
\* consults the finder and every finder configuration.
C6_FinderExceptionFallsThrough ==
    FinderRaised => (Req.excCaught /\ Req.primaryCalled /\ Req.ret = Req.primary)

\* C6, amended: whenever the finder raises, the exception is caught and the
\* finder counts as having given no answer: the request falls through to the
\* primary engine unless skip_jedi is set or the request type is 'pydef_goto',
\* in which case the primary engine is not asked and None is returned.
C6_FinderExceptionIsNoAnswer ==
    FinderRaised =>
        /\ Req.excCaught
        /\ IF SkipsPrimary
           THEN ~Req.primaryCalled /\ Req.ret = [kind |-> "value", val |-> None]
           ELSE Req.primaryCalled /\ Req.ret = Req.primary

\* C6 witness: the finder raised for a 'goto' request without skip_jedi and
\* the primary engine's answer was returned.
C6_Witness ==
    /\ FinderRaised
    /\ Req.request_type = "goto"
    /\ ~Req.self.pydef.skip_jedi
    /\ Req.primaryCalled
    /\ Req.ret = [kind |-> "value", val |-> [tag |-> "jedi", id |-> 1]]

\* C7: the finder is called iff the request type is 'goto' or 'pydef_goto' and
\* the finder configuration is enabled; the primary engine is called iff the
\* finder produced no answer and the finder was not consulted with skip_jedi
\* set or with type 'pydef_goto'; what the request hands back is the primary
\* engine's outcome when it was called, else the finder's answer (its file,
\* its row + 1, column 0) when it gave one, else None.
C7_BackendSelection ==
    last.kind = "request" =>
        LET consulted == Req.request_type \in {"goto", "pydef_goto"}
                         /\ Req.self.pydef.enabled
            found     == consulted /\ Req.finder.kind = "found"
        IN  /\ Req.finderCalled <=> consulted
            /\ Req.primaryCalled <=> (~found /\ ~(consulted /\ SkipsPrimary))
            /\ Req.ret = IF Req.primaryCalled THEN Req.primary
                         ELSE IF found
                         THEN [kind |-> "value",
                               val |-> [tag |-> "loc", file |-> Req.finder.filename,
                                        row |-> Req.finder.row + 1, col |-> 0]]
                         ELSE [kind |-> "value", val |-> None]

\* C7 witness: a 'goto' request answered by the finder alone.
C7_Witness ==
    /\ last.kind = "request"
    /\ Req.request_type = "goto"
    /\ Req.finderCalled
    /\ Req.finder.kind = "found"
    /\ ~Req.primaryCalled
    /\ Req.ret.val.tag = "loc"

\* C8, as claimed: at most one Daemon and at most one pool are ever created
\* for a window id, the tables hold them from then on, and every request of
\* the window uses them.
C8_OneDaemonAndPoolPerWindow ==
    /\ \A i \in 1..Len(daemons), j \in 1..Len(daemons) :
          daemons[i] = daemons[j] => i = j
    /\ \A i \in 1..Len(pools), j \in 1..Len(pools) :
          pools[i].win = pools[j].win => i = j
    /\ \A i \in 1..Len(daemons) : DAEMONS[daemons[i]] = i
    /\ \A i \in 1..Len(pools) : REQUESTORS[pools[i].win] = i
    /\ \A t \in Threads :
          pc[t] \in {"in_request", "gr_check", "submit", "wait", "expired"} =>
              fr[t].daemon = DAEMONS[fr[t].wid]
    /\ \A f \in FutIds :
          futs[f].daemon = DAEMONS[futs[f].win] /\ futs[f].pool = REQUESTORS[futs[f].win]

\* C9, as claimed: a request still waiting in the queue, behind an earlier
\* request that occupies the worker, when its caller's timeout expires is
\* cancelled and never forwarded to a backend.
C9_PendingAtExpiryNeverRuns ==
    \A f \in FutIds :
        (futs[f].atExpiry = "PENDING" /\ futs[f].ahead # 0) =>
            futs[f].state \in {"PENDING", "CANCELLED"}

\* C9, amended: a request still waiting in the queue when its caller, after
\* the timeout expired, executes request.cancel() is cancelled and never
\* forwarded to a backend.
C9_PendingAtCancelNeverRuns ==
    \A f \in FutIds :
        futs[f].atCancel = "PENDING" => futs[f].state = "CANCELLED"

\* C9 witness: a request was cancelled while it waited behind an earlier
\* one, the worker has since taken it off the queue without running it, and
\* the worker is free again.
C9_Witness ==
    \E f \in FutIds :
        /\ futs[f].ahead # 0
        /\ futs[f].atCancel = "PENDING"
        /\ futs[f].state = "CANCELLED"
        /\ pools[futs[f].pool].queue = <<>>
        /\ pools[futs[f].pool].running = {}

\* a future's request has been started on the worker
Started(f) == futs[f].state \in {"RUNNING", "FINISHED"}

ReqDir == Dirname(Req.filename)

\* C13: Daemon.request never changes the Daemon's stored search path: after
\* any sequence of requests sys_path is what the constructor stored.  The path
\* one request uses is the stored path, or, with auto_path enabled, the stored
\* path with the current file's directory put in front, and that only when
\* the directory has no __init__.py and is not in the stored path already.
C13_SysPathUnchanged ==
    /\ self.sys_path = self0.sys_path
    /\ last.kind = "request" =>
          /\ Req.self.sys_path = self0.sys_path
          /\ \/ Req.path = self0.sys_path
             \/ /\ Req.path = <<ReqDir>> \o self0.sys_path
                /\ Req.self.pydef.enabled /\ Req.self.pydef.auto_path
                /\ ~Req.hasInit
                /\ \A i \in 1..Len(self0.sys_path) : self0.sys_path[i] # ReqDir
          /\ (Req.self.pydef.enabled /\ Req.self.pydef.auto_path /\ ~Req.hasInit
              /\ \A i \in 1..Len(self0.sys_path) : self0.sys_path[i] # ReqDir) =>
                Req.path # self0.sys_path

\* C13 witness: a request with auto_path enabled has used a path one entry
\* longer than the stored one, and the stored path is still the constructor's.
C13_Witness ==
    /\ last.kind = "request"
    /\ Req.self.pydef.auto_path
    /\ Len(Req.path) = Len(self0.sys_path) + 1
    /\ Req.path[1] = <<"pkg">>
    /\ self.sys_path = self0.sys_path

\* C16: for a request at 0-based cursor row r and column c, the finder, when
\* called, receives row r and column c; a finder result at row k is answered
\* as the location (result file, k + 1, 0); the primary engine, when called,
\* receives line r + 1 and column c.
C16_LineNumbering ==
    last.kind = "request" =>
        /\ Req.finderCalled => (Req.finderRow = Req.line /\ Req.finderCol = Req.column)
        /\ (Req.finderCalled /\ Req.finder.kind = "found") =>
              /\ Req.ret.kind = "value"
              /\ Req.ret.val.file = Req.finder.filename
              /\ Req.ret.val.row = Req.finder.row + 1
              /\ Req.ret.val.col = 0
        /\ Req.primaryCalled =>
              (Req.primaryLine = Req.line + 1 /\ Req.primaryCol = Req.column)

\* C16 witness: a 'goto' request at the last row and a column other than 0
\* for which the finder was called, found nothing, and the primary engine
\* was asked.
C16_Witness ==
    /\ last.kind = "request"
    /\ Req.line = MaxRow
    /\ Req.column = MaxRow
    /\ Req.finderCalled
    /\ Req.finder.kind = "none"
    /\ Req.primaryCalled
    /\ Req.primaryLine = MaxRow + 1

\* closure k of ask_daemon is made in this step
ClosureMade(k) == k = Len(tasks) + 1 /\ Len(tasks') = k

\* position k of the host's async queue holds closure j
Queued(q, j) == \E i \in 1..Len(q) : q[i] = j

\* C12: an ask_daemon call with a falsy callback schedules nothing: the step
\* of the call leaves the host's async queue, the Daemon table and the pool
\* table (and the objects they hold) as they were and starts no request; and
\* its closure is never queued, never run by the async thread, and its
\* callback never invoked.
C12_FalsyCallbackSchedulesNothing ==
    [][\A k \in 1..Len(tasks') :
          ~tasks'[k].callback =>
              /\ tasks'[k].state = "unscheduled"
              /\ tasks'[k].ncb = 0
              /\ ~Queued(asyncQ', k)
              /\ \A t \in Threads : fr'[t].task # k
              /\ ClosureMade(k) =>
                    /\ UNCHANGED <<asyncQ, DAEMONS, REQUESTORS, daemons, pools,
                                   futs, pc, fr>>
                    /\ \A j \in TaskIds : tasks'[j] = tasks[j]]_vars

\* C12 witness: an ask_daemon call with a falsy callback was made while the
\* tables were empty; they still are, although the call made after it (with
\* a callback, for the other window) has been answered.
C12_Witness ==
    \E k \in TaskIds, j \in TaskIds :
        /\ k < j
        /\ ~tasks[k].callback
        /\ tasks[k].state = "unscheduled"
        /\ tasks[j].state = "delivered"
        /\ DAEMONS[tasks[k].window_id] = 0
        /\ REQUESTORS[tasks[k].window_id] = 0

\* C15: windows are isolated: a timeout-bound request that waits while the
\* worker of its own window is idle can be taken up by that worker at once,
\* whatever requests (long-running, or timed out and still running) occupy
\* the workers of other windows.
C15_WindowsIsolated ==
    \A f \in FutIds :
        (futs[f].state = "PENDING" /\ pools[futs[f].pool].running = {}) =>
            ENABLED WorkerTake(futs[f].pool)

\* C15 witness: a request of one window has started while a request of the
\* other window, whose caller has timed out, still occupies that window's
\* worker.
C15_Witness ==
    \E f \in FutIds, g \in FutIds :
        /\ futs[f].win # futs[g].win
        /\ f < g
        /\ TimedOutRunning(f)
        /\ futs[f].out = TimeoutError
        /\ futs[g].state = "RUNNING"

\* the Daemon.request of closure k has returned an answer to _async_summon
Returned(k) == k \in TaskIds /\ pc["async"] = "deliver" /\ fr["async"].task = k
\* the callback of closure k has been invoked
Invoked(k) == k \in TaskIds /\ tasks[k].ncb = 1
\* the window closure k was made for has been closed
WindowGone(k) == k \in TaskIds /\ ~winOpen[tasks[k].window_id]

ViewData(v) == [text |-> buf[v].text, pos |-> buf[v].cursor]

\* the async thread reads the request data of closure k in this step
ReadsData(k) == tasks[k].used = NoData /\ tasks'[k].used # NoData

\* a future is submitted in this step by thread t
Submits(t) == pc[t] = "submit" /\ Len(futs') = Len(futs) + 1

\* what C14 says of ask_daemon_with_timeout: the data are read on the
\* calling thread when the request is submitted (the text as it is then; the
\* position as given, or the cursor as it is then), and the worker gives
\* Daemon.request those data, whatever has become of the view since
TimeoutDataSnapshot ==
    /\ \A t \in Threads :
          Submits(t) =>
              LET d == futs'[Len(futs')].request_data
              IN  /\ d.text = buf[fr[t].view].text
                  /\ d.pos = IF fr[t].location = NoLocation
                             THEN buf[fr[t].view].cursor ELSE fr[t].location
    /\ \A f \in 1..Len(futs') :
          futs'[f].state \in {"RUNNING", "FINISHED"} =>
              futs'[f].used = futs'[f].request_data
    /\ \A f \in FutIds : futs'[f].request_data = futs[f].request_data

\* C14, as claimed: ask_daemon_with_timeout as above; the request of an
\* ask_daemon call is given the text and the cursor position of the view as
\* they are when the async task runs, so that an edit or a cursor move made
\* since the call is reflected in it.
C14_AsyncReadsViewAtRun ==
    [][/\ TimeoutDataSnapshot
       /\ \A k \in TaskIds :
             ReadsData(k) => tasks'[k].used = ViewData(tasks[k].view)]_vars

\* C14, amended: ask_daemon_with_timeout as above; the request of an
\* ask_daemon call is given the text of the view as it is when the async task
\* runs and, when no location was passed, the cursor position as it is then;
\* a location passed to ask_daemon is used as passed, whatever the cursor
\* has done since.
C14_AsyncReadsTextAtRun ==
    [][/\ TimeoutDataSnapshot
       /\ \A k \in TaskIds :
             ReadsData(k) =>
                 /\ tasks'[k].used.text = buf[tasks[k].view].text
                 /\ tasks'[k].used.pos =
                        IF tasks[k].location = NoLocation
                        THEN buf[tasks[k].view].cursor
                        ELSE tasks[k].location]_vars

\* C14 witness: a view was edited or its cursor moved while a timeout-bound
\* request for it waited in the queue, and the worker was given the data read
\* before; the same change came between an ask_daemon call and its task, and
\* that request was given the data as changed.
C14_Witness ==
    \E f \in FutIds, k \in TaskIds :
        /\ futs[f].state \in {"RUNNING", "FINISHED"}
        /\ futs[f].atStart # NoData
        /\ futs[f].atStart # futs[f].request_data
        /\ futs[f].used = futs[f].request_data
        /\ tasks[k].used # NoData
        /\ tasks[k].used # tasks[k].atCall
====
